---- MODULE Spec2Model ----
(***************************************************************************)
(* Overscan add-on for Blender (riouxr/Overscan).                          *)
(*                                                                         *)
(* Two revisions of the same pair of operators are modelled side by side:  *)
(*   "current" : src/__init__.py             (safe areas, ORTHO support)   *)
(*   "legacy"  : src/BlenderBob_overscan.py  (sensor width only)           *)
(* Both are driven by the same user: the same button presses and the same  *)
(* edits of the scene are applied to the two scenes in lock step.          *)
(*                                                                         *)
(* Numbers.  The render resolution is an integer.  The expression whose    *)
(* result is rounded to an integer (round(w * (1 + p/100)) and             *)
(* round(x * (h/w))) is evaluated in IEEE-754 binary64, operation by       *)
(* operation, as CPython does.  Camera parameters, background scales and   *)
(* safe-area margins are real-valued quantities and are kept as exact      *)
(* rationals <<numerator, denominator>> in lowest terms.                   *)
(*                                                                         *)
(* Host.  Properties of the host application (render resolution, camera    *)
(* parameters, margins) hold what the operators assign to them.  A         *)
(* division by zero raises ZeroDivisionError: the operator ends with the   *)
(* outcome "ERROR" and the assignments made before it remain.              *)
(***************************************************************************)
EXTENDS Integers, Sequences, FiniteSets, TLC

\* ------------------------------------------------------------------------
\* Exact rationals
\* ------------------------------------------------------------------------
Abs(n) == IF n < 0 THEN -n ELSE n

RECURSIVE Gcd(_, _)
Gcd(a, b) == IF b = 0 THEN a ELSE Gcd(b, a % b)

\* a / b in lowest terms, denominator positive (b # 0)
Rat(a, b) ==
    LET g == Gcd(Abs(a), Abs(b))
        s == IF b < 0 THEN -1 ELSE 1
    IN  << (s * a) \div g, (s * b) \div g >>

RMul(q, r) == Rat(q[1] * r[1], q[2] * r[2])
RDiv(q, r) == Rat(q[1] * r[2], q[2] * r[1])
RInt(n)    == << n, 1 >>
RZero      == << 0, 1 >>
ROne       == << 1, 1 >>

\* ------------------------------------------------------------------------
\* IEEE-754 binary64 arithmetic on non-negative values.
\* A big natural is a sequence of 15-bit limbs, least significant first,
\* without a zero top limb; a double is <<mantissa, exponent>> and stands
\* for mantissa * 2^exponent.
\* ------------------------------------------------------------------------
LimbBits == 15
Base     == 32768
MantBits == 53

RECURSIVE Pow2(_)
Pow2(k) == IF k = 0 THEN 1 ELSE 2 * Pow2(k - 1)

RECURSIVE Trim(_)
Trim(N) == IF N = <<>> THEN N
           ELSE IF N[Len(N)] = 0 THEN Trim(SubSeq(N, 1, Len(N) - 1))
           ELSE N

RECURSIVE Zeros(_)
Zeros(n) == IF n = 0 THEN <<>> ELSE <<0>> \o Zeros(n - 1)

RECURSIVE SmallBits(_)
SmallBits(n) == IF n = 0 THEN 0 ELSE 1 + SmallBits(n \div 2)

BitLen(N) == IF N = <<>> THEN 0
             ELSE (Len(N) - 1) * LimbBits + SmallBits(N[Len(N)])

IsOdd(N) == N # <<>> /\ N[1] % 2 = 1

RECURSIVE ToInt(_)
ToInt(N) == IF N = <<>> THEN 0 ELSE N[1] + Base * ToInt(Tail(N))

\* N * k for a small k (0 <= k < Base)
RECURSIVE MulCarry(_, _, _)
MulCarry(N, k, c) ==
    IF N = <<>> THEN (IF c = 0 THEN <<>> ELSE <<c>>)
    ELSE LET t == N[1] * k + c
         IN  <<t % Base>> \o MulCarry(Tail(N), k, t \div Base)

MulSmall(N, k) == Trim(MulCarry(N, k, 0))

\* N + M
RECURSIVE AddCarry(_, _, _)
AddCarry(N, M, c) ==
    IF N = <<>> /\ M = <<>> THEN (IF c = 0 THEN <<>> ELSE <<c>>)
    ELSE LET a == IF N = <<>> THEN 0 ELSE N[1]
             b == IF M = <<>> THEN 0 ELSE M[1]
             t == a + b + c
         IN  <<t % Base>> \o AddCarry(IF N = <<>> THEN N ELSE Tail(N),
                                      IF M = <<>> THEN M ELSE Tail(M),
                                      t \div Base)

AddBig(N, M) == AddCarry(N, M, 0)

\* <<N div k, N mod k>> for a small k (1 <= k < Base), top limb first
RECURSIVE DivStep(_, _, _, _)
DivStep(N, k, i, r) ==
    IF i > Len(N) THEN << <<>>, r >>
    ELSE LET cur  == r * Base + N[Len(N) + 1 - i]
             rest == DivStep(N, k, i + 1, cur % k)
         IN  << Append(rest[1], cur \div k), rest[2] >>

DivSmall(N, k) == LET d == DivStep(N, k, 1, 0) IN << Trim(d[1]), d[2] >>

\* 2^k as a big natural
BigPow2(k) == Zeros(k \div LimbBits) \o << Pow2(k % LimbBits) >>

\* <<N div 2^s, (N mod 2^s) # 0>>
ShiftSticky(N, s) ==
    LET nl   == s \div LimbBits
        low  == SubSeq(N, 1, IF nl < Len(N) THEN nl ELSE Len(N))
        high == IF nl < Len(N) THEN SubSeq(N, nl + 1, Len(N)) ELSE <<>>
        d    == DivSmall(high, Pow2(s % LimbBits))
    IN  << d[1], (d[2] # 0) \/ (\E i \in 1..Len(low) : low[i] # 0) >>

\* N / 2^s rounded to the nearest integer, ties to even; st says that the
\* exact value lies strictly above N (bits lost by an earlier truncation)
RoundShift(N, s, st) ==
    LET a     == ShiftSticky(N, s - 1)
        guard == IsOdd(a[1])
        q     == DivSmall(a[1], 2)[1]
        up    == guard /\ (a[2] \/ st \/ IsOdd(q))
    IN  IF up THEN AddBig(q, <<1>>) ELSE q

\* the double nearest to N * 2^e (round to nearest, ties to even)
Round53(N, e, st) ==
    LET L == BitLen(N)
    IN  IF L <= MantBits THEN << N, e >>
        ELSE << RoundShift(N, L - MantBits, st), e + (L - MantBits) >>

\* float(a) / float(b) for integers 0 <= a < Base, 1 <= b < Base
DivShift == 75
FDivInt(a, b) ==
    IF a = 0 THEN << <<>>, 0 >>
    ELSE LET d == DivSmall(Zeros(DivShift \div LimbBits) \o <<a>>, b)
         IN  Round53(d[1], -DivShift, d[2] # 0)

\* 1 + d for a double d with exponent <= 0
FAddOne(d) ==
    IF d[1] = <<>> THEN << <<1>>, 0 >>
    ELSE Round53(AddBig(BigPow2(-d[2]), d[1]), d[2], FALSE)

\* float(k) * d for an integer 0 <= k < Base
FMulInt(k, d) == Round53(MulSmall(d[1], k), d[2], FALSE)

\* Python's round(d): nearest integer, ties of the double d to even
PyRound(d) ==
    IF d[1] = <<>> THEN 0
    ELSE IF d[2] >= 0 THEN ToInt(d[1]) * Pow2(d[2])
    ELSE ToInt(RoundShift(d[1], -d[2], FALSE))

\* ------------------------------------------------------------------------
\* Bounds and input sets
\* ------------------------------------------------------------------------
MaxSteps == 5       \* user actions (button presses and edits) per behaviour
MaxBg    == 2       \* background images attached to one camera

Revs  == {"current", "legacy"}
Cams  == {"A", "B"}

\* render resolutions the user types in
Resolutions == { <<1920, 1080>>, <<50, 55>> }
\* (mode, parameter) pairs the user types in
Configs == { <<"PERCENTAGE", 10>>, <<"PIXELS", 100>>,
             <<"SPECIFIC_X", 2560>>, <<"SPECIFIC_X", 55>> }
\* scale of a background image the user attaches
BgScales == { <<1, 1>>, <<1, 2>> }

\* custom properties (ID properties) are optional: <<>> is a missing key
Get(k, dflt) == IF k = <<>> THEN dflt ELSE k[1]

NoProps ==
    [ original_width        |-> <<>>,
      original_height       |-> <<>>,
      original_sensor_width |-> <<>>,
      original_ortho_scale  |-> <<>>,
      bg_image_scale        |-> <<>>,    \* keys bg_image_scale_0 .. _(n-1)
      overscan_applied      |-> <<>> ]

\* OverscanSettings with its declared defaults
DefaultSettings ==
    [ mode                  |-> "PERCENTAGE",
      percentage            |-> 0,
      extra_pixels          |-> 0,
      specific_x_resolution |-> 1920,
      original_width        |-> 0,
      original_height       |-> 0,
      original_sensor_width |-> RZero ]

SetConfig(ov, cfg) ==
    IF cfg[1] = "PERCENTAGE"
      THEN [ov EXCEPT !.mode = cfg[1], !.percentage = cfg[2]]
    ELSE IF cfg[1] = "PIXELS"
      THEN [ov EXCEPT !.mode = cfg[1], !.extra_pixels = cfg[2]]
    ELSE [ov EXCEPT !.mode = cfg[1], !.specific_x_resolution = cfg[2]]

\* ------------------------------------------------------------------------
\* Camera name suffix
\* ------------------------------------------------------------------------
EndsWithO(name) ==
    /\ Len(name) >= 2
    /\ name[Len(name) - 1] = "_"
    /\ name[Len(name)] = "o"

\* variant: appends without looking
AddSuffixAlways(name) == name \o <<"_", "o">>
AddSuffix(name)   == IF ~EndsWithO(name) THEN name \o <<"_", "o">> ELSE name
StripSuffix(name) == IF EndsWithO(name)
                       THEN SubSeq(name, 1, Len(name) - 2) ELSE name

\* ------------------------------------------------------------------------
\* Arithmetic of apply
\* ------------------------------------------------------------------------
RSub(q, r) == Rat(q[1] * r[2] - r[1] * q[2], q[2] * r[2])

\* variant: PIXELS margin taken from the width on both axes
SafeAreaActionUniform(ov, w, h) ==
    IF ov.mode = "PERCENTAGE" THEN
        LET m == RMul(RSub(Rat(100, ov.percentage + 100), ROne), RInt(-1))
        IN  << m, m >>
    ELSE IF ov.mode = "PIXELS" THEN
        LET e == ov.extra_pixels
            m == RMul(RDiv(Rat(e, 2), RInt(e + w)), RInt(2))
        IN  << m, m >>
    ELSE
        LET m == Rat(ov.specific_x_resolution - w, ov.specific_x_resolution)
        IN  << m, m >>

\* the action safe-area margin pair (requires the divisors to be non-zero)
SafeAreaAction(ov, w, h) ==
    IF ov.mode = "PERCENTAGE" THEN
        LET m == RMul(RSub(Rat(100, ov.percentage + 100), ROne), RInt(-1))
        IN  << m, m >>
    ELSE IF ov.mode = "PIXELS" THEN
        LET e == ov.extra_pixels
        IN  << RMul(RDiv(Rat(e, 2), RInt(e + w)), RInt(2)),
               RMul(RDiv(Rat(e, 2), RInt(e + h)), RInt(2)) >>
    ELSE
        LET m == Rat(ov.specific_x_resolution - w, ov.specific_x_resolution)
        IN  << m, m >>

SafeAreaFault(ov, w, h) ==
    ov.mode = "PIXELS" /\ (ov.extra_pixels + w = 0 \/ ov.extra_pixels + h = 0)

\* variant: PIXELS pads the width only
NewSizeWidthOnly(ov, w, h) ==
    IF ov.mode = "PERCENTAGE" THEN
        LET f == FAddOne(FDivInt(ov.percentage, 100))
        IN  << PyRound(FMulInt(w, f)), PyRound(FMulInt(h, f)) >>
    ELSE IF ov.mode = "PIXELS" THEN
        << w + ov.extra_pixels, h >>
    ELSE
        LET aspect_ratio == FDivInt(h, w)
        IN  << ov.specific_x_resolution,
               PyRound(FMulInt(ov.specific_x_resolution, aspect_ratio)) >>

\* <<new_width, new_height>> (SPECIFIC_X requires w # 0)
NewSize(ov, w, h) ==
    IF ov.mode = "PERCENTAGE" THEN
        LET f == FAddOne(FDivInt(ov.percentage, 100))
        IN  << PyRound(FMulInt(w, f)), PyRound(FMulInt(h, f)) >>
    ELSE IF ov.mode = "PIXELS" THEN
        << w + ov.extra_pixels, h + ov.extra_pixels >>
    ELSE
        LET aspect_ratio == FDivInt(h, w)
        IN  << ov.specific_x_resolution,
               PyRound(FMulInt(ov.specific_x_resolution, aspect_ratio)) >>

NewSizeFault(ov, w) == ov.mode = "SPECIFIC_X" /\ w = 0

\* camera[f"bg_image_scale_{index}"] = bg_image.scale for every image:
\* overwrites the keys of the present images, keeps the keys above them
StoreBgScales(keys, images) ==
    [ i \in 1..(IF Len(keys) > Len(images) THEN Len(keys) ELSE Len(images))
        |-> IF i <= Len(images) THEN images[i] ELSE keys[i] ]

\* variant: divides where the code multiplies
ScaleBgInverse(images, scale) ==
    [ i \in 1..Len(images) |-> RDiv(images[i], scale) ]
ScaleBg(images, scale) == [ i \in 1..Len(images) |-> RMul(images[i], scale) ]

\* variant: the stored scales are never written back
RestoreBgNone(images, keys) == images

\* bg_image.scale = camera[property_name] where the key exists
RestoreBg(images, keys) ==
    [ i \in 1..Len(images) |-> IF i <= Len(keys) THEN keys[i] ELSE images[i] ]

\* variant: the guard never fires
AppliedNever(camera) == FALSE
Applied(camera) == Get(camera.props.overscan_applied, FALSE)

\* ------------------------------------------------------------------------
\* src/__init__.py
\* ------------------------------------------------------------------------
\* The stages of ApplyOverscan.execute.  A division by zero raises
\* ZeroDivisionError: the operator stops there and what it wrote stays.
Fault(s) == [scene |-> s, outcome |-> "ERROR"]

\* value of the camera parameter stored by this apply
StoredOriginal(camera) ==
    IF camera.type = "ORTHO" THEN camera.props.original_ortho_scale[1]
                             ELSE camera.props.original_sensor_width[1]

\* background image scaling, suffix, overlay flag, applied flag
ApplyBackground(s, a) ==
    LET camera == s.cam[a]
        param  == IF camera.type = "ORTHO" THEN camera.ortho_scale
                                           ELSE camera.sensor_width
    IN  IF param[1] = 0 THEN Fault(s)
        ELSE [ scene |->
                 [s EXCEPT
                    !.cam[a].props.bg_image_scale =
                        StoreBgScales(@, camera.background_images),
                    !.cam[a].background_images =
                        ScaleBg(@, RDiv(StoredOriginal(camera), param)),
                    !.cam[a].name = AddSuffix(@),
                    !.cam[a].show_safe_areas = TRUE,
                    !.cam[a].props.overscan_applied = <<TRUE>>],
               outcome |-> "FINISHED" ]

\* scale factor and camera attribute; s holds the new resolution
ApplyCamera(s, a) ==
    LET camera == s.cam[a]
        w      == camera.props.original_width[1]
    IN  IF w = 0 THEN Fault(s)
        ELSE ApplyBackground(
               IF camera.type = "ORTHO"
                 THEN [s EXCEPT !.cam[a].ortho_scale =
                         RMul(StoredOriginal(camera), Rat(s.resolution_x, w))]
                 ELSE [s EXCEPT !.cam[a].sensor_width =
                         RMul(StoredOriginal(camera), Rat(s.resolution_x, w))],
               a)

SetSize(s, size) ==
    [s EXCEPT !.resolution_x = size[1], !.resolution_y = size[2]]

\* render resolution
ApplyResolution(s, a, ov) ==
    LET w == s.cam[a].props.original_width[1]
        h == s.cam[a].props.original_height[1]
    IN  IF NewSizeFault(ov, w) THEN Fault(s)
        ELSE ApplyCamera(SetSize(s, NewSize(ov, w, h)), a)

\* safe areas
ApplySafeAreas(s, a, ov) ==
    LET w == s.cam[a].props.original_width[1]
        h == s.cam[a].props.original_height[1]
    IN  IF SafeAreaFault(ov, w, h) THEN Fault(s)
        ELSE ApplyResolution(
               [s EXCEPT !.action = SafeAreaAction(ov, w, h),
                         !.title  = << ROne, ROne >>],
               a, ov)

\* store original values
StoreOriginals(s, a) ==
    [s EXCEPT
       !.cam[a].props.original_width  = << s.resolution_x >>,
       !.cam[a].props.original_height = << s.resolution_y >>,
       !.cam[a].props.original_ortho_scale =
           IF s.cam[a].type = "ORTHO" THEN << s.cam[a].ortho_scale >> ELSE @,
       !.cam[a].props.original_sensor_width =
           IF s.cam[a].type = "ORTHO" THEN @ ELSE << s.cam[a].sensor_width >>]

ApplyOverscan(s, a, ov) ==
    IF Applied(s.cam[a]) THEN [scene |-> s, outcome |-> "CANCELLED"]
    ELSE ApplySafeAreas(StoreOriginals(s, a), a, ov)

\* variant: the flag is left as it is
RevertOverscanKeepsFlag(s, a, ov) ==
    LET camera == s.cam[a]
        props  == camera.props
        s1 == [s EXCEPT
                 !.resolution_x = Get(props.original_width, ov.original_width),
                 !.resolution_y = Get(props.original_height, ov.original_height)]
        s2 == IF camera.type = "ORTHO"
                THEN [s1 EXCEPT !.cam[a].ortho_scale =
                                   Get(props.original_ortho_scale, @)]
                ELSE [s1 EXCEPT !.cam[a].sensor_width =
                                   Get(props.original_sensor_width, @)]
        s3 == [s2 EXCEPT
                 !.cam[a].background_images = RestoreBg(@, props.bg_image_scale),
                 !.action = << ROne, ROne >>,
                 !.title  = << ROne, ROne >>,
                 !.cam[a].name = StripSuffix(@)]
    IN  [scene |-> s3, outcome |-> "FINISHED"]

RevertOverscan(s, a, ov) ==
    LET camera == s.cam[a]
        props  == camera.props
        s1 == [s EXCEPT
                 !.resolution_x = Get(props.original_width, ov.original_width),
                 !.resolution_y = Get(props.original_height, ov.original_height)]
        s2 == IF camera.type = "ORTHO"
                THEN [s1 EXCEPT !.cam[a].ortho_scale =
                                   Get(props.original_ortho_scale, @)]
                ELSE [s1 EXCEPT !.cam[a].sensor_width =
                                   Get(props.original_sensor_width, @)]
        s3 == [s2 EXCEPT
                 !.cam[a].background_images = RestoreBg(@, props.bg_image_scale),
                 !.action = << ROne, ROne >>,
                 !.title  = << ROne, ROne >>,
                 !.cam[a].name = StripSuffix(@),
                 !.cam[a].props.overscan_applied = <<FALSE>>]
    IN  [scene |-> s3, outcome |-> "FINISHED"]

\* ------------------------------------------------------------------------
\* src/BlenderBob_overscan.py
\* ------------------------------------------------------------------------
\* background image scaling and applied flag
LegacyApplyBackground(s, a) ==
    LET camera == s.cam[a]
    IN  IF camera.sensor_width[1] = 0 THEN Fault(s)
        ELSE [ scene |->
                 [s EXCEPT
                    !.cam[a].background_images =
                        ScaleBg(@, RDiv(camera.props.original_sensor_width[1],
                                        camera.sensor_width)),
                    !.cam[a].props.overscan_applied = <<TRUE>>],
               outcome |-> "FINISHED" ]

\* sensor width, suffix, stored background scales; s holds the new resolution
LegacyApplyCamera(s, a) ==
    LET camera == s.cam[a]
        w      == camera.props.original_width[1]
    IN  IF w = 0 THEN Fault(s)
        ELSE LegacyApplyBackground(
               [s EXCEPT
                  !.cam[a].sensor_width =
                      RMul(camera.props.original_sensor_width[1],
                           Rat(s.resolution_x, w)),
                  !.cam[a].name = AddSuffix(@),
                  !.cam[a].props.bg_image_scale =
                      StoreBgScales(@, camera.background_images)],
               a)

\* render resolution
LegacyApplyResolution(s, a, ov) ==
    LET w == s.cam[a].props.original_width[1]
        h == s.cam[a].props.original_height[1]
    IN  IF NewSizeFault(ov, w) THEN Fault(s)
        ELSE LegacyApplyCamera(SetSize(s, NewSize(ov, w, h)), a)

\* store original values
LegacyStoreOriginals(s, a) ==
    [s EXCEPT
       !.cam[a].props.original_width  = << s.resolution_x >>,
       !.cam[a].props.original_height = << s.resolution_y >>,
       !.cam[a].props.original_sensor_width = << s.cam[a].sensor_width >>]

LegacyApplyOverscan(s, a, ov) ==
    IF Applied(s.cam[a]) THEN [scene |-> s, outcome |-> "CANCELLED"]
    ELSE LegacyApplyResolution(LegacyStoreOriginals(s, a), a, ov)

LegacyRevertOverscan(s, a, ov) ==
    LET camera == s.cam[a]
        props  == camera.props
        s1 == [s EXCEPT
                 !.cam[a].sensor_width =
                     Get(props.original_sensor_width, ov.original_sensor_width),
                 !.resolution_x = Get(props.original_width, ov.original_width),
                 !.resolution_y = Get(props.original_height, ov.original_height),
                 !.cam[a].name = StripSuffix(@),
                 !.cam[a].background_images = RestoreBg(@, props.bg_image_scale),
                 !.cam[a].props.overscan_applied = <<FALSE>>]
    IN  [scene |-> s1, outcome |-> "FINISHED"]

\* ------------------------------------------------------------------------
\* State
\* ------------------------------------------------------------------------
VARIABLES
    scene,      \* scene[rev]: render resolution, safe areas and cameras
    overscan,   \* scene.overscan_settings (the panel), same for both
    active,     \* scene.camera
    steps,      \* number of user actions so far
    last,       \* the last user action: its kind, camera, outcomes, for
                \* apply the current revision's scene before it, and the
                \* kind and current-revision outcome of the action before
    captured    \* per camera, what the last successful apply of the
                \* current revision saw before it changed anything

vars == << scene, overscan, active, steps, last, captured >>

Camera(type, name, images) ==
    [ type              |-> type,
      sensor_width      |-> << 36, 1 >>,
      ortho_scale       |-> << 6, 1 >>,
      background_images |-> images,
      name              |-> name,
      show_safe_areas   |-> FALSE,
      props             |-> NoProps ]

InitScene(res) ==
    [ resolution_x |-> res[1],
      resolution_y |-> res[2],
      action       |-> << <<1, 10>>, <<1, 20>> >>,
      title        |-> << <<1, 10>>, <<1, 20>> >>,
      cam          |-> [ A |-> Camera("PERSP", << "a" >>, << ROne >>),
                         B |-> Camera("ORTHO", << "b", "_", "o" >>, << >>) ] ]

NoOutcome == [ current |-> "NONE", legacy |-> "NONE" ]

\* The add-on is registered, the scene has two cameras, and the user may
\* already have chosen a mode and typed its parameter in the panel.
Init ==
    /\ \E res \in Resolutions :
         scene = [ current |-> InitScene(res), legacy |-> InitScene(res) ]
    /\ overscan \in {DefaultSettings}
                      \cup { SetConfig(DefaultSettings, cfg) : cfg \in Configs }
    /\ active = "A"
    /\ steps = 0
    /\ last = [ op |-> "none", cam |-> "A", outcome |-> NoOutcome,
                pre |-> <<>>, prev |-> << "none", "NONE" >> ]
    /\ captured = [ c \in Cams |-> <<>> ]

Capture(s, a) ==
    [ width  |-> s.resolution_x,
      height |-> s.resolution_y,
      type   |-> s.cam[a].type,
      param  |-> IF s.cam[a].type = "ORTHO" THEN s.cam[a].ortho_scale
                                            ELSE s.cam[a].sensor_width,
      images |-> s.cam[a].background_images ]

Prev == << last.op, last.outcome.current >>

\* ------------------------------------------------------------------------
\* The two buttons
\* ------------------------------------------------------------------------
Apply ==
    /\ steps < MaxSteps
    /\ LET rc == ApplyOverscan(scene.current, active, overscan)
           rl == LegacyApplyOverscan(scene.legacy, active, overscan)
       IN  /\ scene' = [ current |-> rc.scene, legacy |-> rl.scene ]
           /\ last' = [ op |-> "apply", cam |-> active,
                        outcome |-> [ current |-> rc.outcome,
                                      legacy  |-> rl.outcome ],
                        pre |-> << scene.current >>, prev |-> Prev ]
           /\ captured' = IF rc.outcome = "FINISHED"
                            THEN [captured EXCEPT
                                    ![active] = << Capture(scene.current, active) >>]
                            ELSE captured
    /\ steps' = steps + 1
    /\ UNCHANGED << overscan, active >>

Revert ==
    /\ steps < MaxSteps
    /\ LET rc == RevertOverscan(scene.current, active, overscan)
           rl == LegacyRevertOverscan(scene.legacy, active, overscan)
       IN  /\ scene' = [ current |-> rc.scene, legacy |-> rl.scene ]
           /\ last' = [ op |-> "revert", cam |-> active,
                        outcome |-> [ current |-> rc.outcome,
                                      legacy  |-> rl.outcome ],
                        pre |-> <<>>, prev |-> Prev ]
    /\ steps' = steps + 1
    /\ UNCHANGED << overscan, active, captured >>

\* ------------------------------------------------------------------------
\* Edits the user makes in the host application between button presses
\* ------------------------------------------------------------------------
Edited ==
    /\ steps' = steps + 1
    /\ last' = [ op |-> "edit", cam |-> active, outcome |-> NoOutcome,
                 pre |-> <<>>, prev |-> Prev ]
    /\ UNCHANGED captured

SetOverscan ==
    /\ steps < MaxSteps
    /\ \E cfg \in Configs :
         /\ SetConfig(overscan, cfg) # overscan
         /\ overscan' = SetConfig(overscan, cfg)
    /\ Edited
    /\ UNCHANGED << scene, active >>

SetResolution ==
    /\ steps < MaxSteps
    /\ \E res \in Resolutions :
         scene' = [ r \in Revs |->
                      [scene[r] EXCEPT !.resolution_x = res[1],
                                       !.resolution_y = res[2]] ]
    /\ scene' # scene
    /\ Edited
    /\ UNCHANGED << overscan, active >>

SetType ==
    /\ steps < MaxSteps
    /\ scene' = [ r \in Revs |->
                    [scene[r] EXCEPT !.cam[active].type =
                        IF @ = "ORTHO" THEN "PERSP" ELSE "ORTHO"] ]
    /\ Edited
    /\ UNCHANGED << overscan, active >>

AddBackground ==
    /\ steps < MaxSteps
    /\ Len(scene.current.cam[active].background_images) < MaxBg
    /\ \E sc \in BgScales :
         scene' = [ r \in Revs |->
                      [scene[r] EXCEPT !.cam[active].background_images =
                                          Append(@, sc)] ]
    /\ Edited
    /\ UNCHANGED << overscan, active >>

RemoveAt(seq, i) == SubSeq(seq, 1, i - 1) \o SubSeq(seq, i + 1, Len(seq))

RemoveBackground ==
    /\ steps < MaxSteps
    /\ \E i \in 1..Len(scene.current.cam[active].background_images) :
         scene' = [ r \in Revs |->
                      [scene[r] EXCEPT !.cam[active].background_images =
                                          RemoveAt(@, i)] ]
    /\ Edited
    /\ UNCHANGED << overscan, active >>

SetActive ==
    /\ steps < MaxSteps
    /\ \E c \in Cams \ {active} : active' = c
    /\ Edited
    /\ UNCHANGED << scene, overscan >>

Next ==
    \/ Apply
    \/ Revert
    \/ SetOverscan
    \/ SetResolution
    \/ SetType
    \/ AddBackground
    \/ RemoveBackground
    \/ SetActive

Spec == Init /\ [][Next]_vars

\* ------------------------------------------------------------------------
\* Properties
\* ------------------------------------------------------------------------
\* vocabulary of the properties
Flag(s, c)   == s.cam[c].props.overscan_applied = << TRUE >>
Pressed(op)  == last'.op = op /\ steps' = steps + 1
Done(op, r)  == Pressed(op) /\ last'.outcome[r] = "FINISHED"
Originals(camera) ==
    << camera.props.original_width, camera.props.original_height,
       camera.props.original_sensor_width, camera.props.original_ortho_scale,
       camera.props.bg_image_scale >>

\* C1 -- double-apply guard.  In both revisions, pressing Apply while the
\* active camera's overscan_applied flag is true is cancelled and leaves the
\* whole scene (resolution, camera parameters, background scales, margins,
\* name, flag, captured originals) as it was; and no step at all rewrites
\* the captured originals of a camera whose flag is true.
C1_DoubleApplyGuard ==
    [][ \A r \in Revs :
          /\ (Pressed("apply") /\ Flag(scene[r], active))
                => /\ last'.outcome[r] = "CANCELLED"
                   /\ scene'[r] = scene[r]
          /\ \A c \in Cams :
                Flag(scene[r], c)
                  => Originals(scene'[r].cam[c]) = Originals(scene[r].cam[c])
      ]_vars

C1_Witness ==
    /\ last.op = "apply"
    /\ last.outcome = [ current |-> "CANCELLED", legacy |-> "CANCELLED" ]
    /\ Flag(scene.current, last.cam)
    /\ scene.current.resolution_x # Get(scene.current.cam[last.cam].props.original_width, 0)

\* C2 -- round trip.  In the current revision, a successful Apply followed
\* at once by Revert leaves the render size, sensor_width, ortho_scale and
\* every background image scale of the camera as they were before the Apply.
C2_RoundTrip ==
    [][ ( /\ last.op = "apply"
          /\ last.outcome.current = "FINISHED"
          /\ Pressed("revert") )
        => LET before == last.pre[1]
               c      == last.cam
               now    == scene'.current
           IN  /\ now.resolution_x = before.resolution_x
               /\ now.resolution_y = before.resolution_y
               /\ now.cam[c].sensor_width = before.cam[c].sensor_width
               /\ now.cam[c].ortho_scale = before.cam[c].ortho_scale
               /\ now.cam[c].background_images = before.cam[c].background_images
      ]_vars

C2_Witness ==
    /\ last.op = "revert"
    /\ last.prev = << "apply", "FINISHED" >>
    /\ scene.current.cam[last.cam].type = "ORTHO"
    /\ Len(scene.current.cam[last.cam].background_images) = 2
    /\ overscan.mode = "SPECIFIC_X"
    /\ scene.current.resolution_x # overscan.specific_x_resolution

\* C3 -- revert restores the most recent capture.  In the current revision,
\* whatever the user edited since, a Revert pressed while the flag is true
\* leaves the render size, the camera parameter that the most recent
\* successful Apply captured, and the scale of every background image that
\* Apply captured equal to the captured values, and clears the flag.
C3_RevertRestoresCapture ==
    [][ ( Pressed("revert") /\ Flag(scene.current, active) )
        => LET cap == captured[active][1]
               cam == scene'.current.cam[active]
           IN  /\ scene'.current.resolution_x = cap.width
               /\ scene'.current.resolution_y = cap.height
               /\ (cap.type = "ORTHO" => cam.ortho_scale = cap.param)
               /\ (cap.type = "PERSP" => cam.sensor_width = cap.param)
               /\ \A i \in 1..Len(cam.background_images) :
                     i <= Len(cap.images)
                        => cam.background_images[i] = cap.images[i]
               /\ ~Flag(scene'.current, active)
      ]_vars

\* nearest integer to n/d, an exact tie going to the even neighbour
RoundHalfEven(n, d) ==
    LET q == n \div d
        r == n % d
    IN  IF 2 * r < d THEN q
        ELSE IF 2 * r > d THEN q + 1
        ELSE IF q % 2 = 0 THEN q ELSE q + 1

\* k is an integer nearest to n/d (either neighbour on an exact tie)
Nearest(k, n, d) == 2 * Abs(k * d - n) <= d

\* C4 as stated -- new render size by mode.  A successful Apply of the
\* current revision on size (w, h) sets the size to
\* (round(w(100+p)/100), round(h(100+p)/100)) in PERCENTAGE mode, to
\* (w+e, h+e) in PIXELS mode and to (x, round(x*h/w)) in SPECIFIC_X mode,
\* where round takes an exact tie to the even integer.
C4_NewSizeTiesToEven ==
    [][ Done("apply", "current")
        => LET w == scene.current.resolution_x
               h == scene.current.resolution_y
               W == scene'.current.resolution_x
               H == scene'.current.resolution_y
               p == overscan.percentage
               e == overscan.extra_pixels
               x == overscan.specific_x_resolution
           IN  /\ overscan.mode = "PERCENTAGE"
                    => /\ W = RoundHalfEven(w * (100 + p), 100)
                       /\ H = RoundHalfEven(h * (100 + p), 100)
               /\ overscan.mode = "PIXELS" => W = w + e /\ H = h + e
               /\ overscan.mode = "SPECIFIC_X"
                    => W = x /\ H = RoundHalfEven(x * h, w)
      ]_vars

\* C4 as amended -- the same, except that round yields an integer nearest
\* to the exact quotient and on an exact tie either neighbour (the one the
\* binary64 evaluation of w*(1+p/100), or of x*(h/w), falls on).
C4_NewSizeNearest ==
    [][ Done("apply", "current")
        => LET w == scene.current.resolution_x
               h == scene.current.resolution_y
               W == scene'.current.resolution_x
               H == scene'.current.resolution_y
               p == overscan.percentage
               e == overscan.extra_pixels
               x == overscan.specific_x_resolution
           IN  /\ w >= 1
               /\ overscan.mode = "PERCENTAGE"
                    => /\ Nearest(W, w * (100 + p), 100)
                       /\ Nearest(H, h * (100 + p), 100)
               /\ overscan.mode = "PIXELS" => W = w + e /\ H = h + e
               /\ overscan.mode = "SPECIFIC_X"
                    => W = x /\ Nearest(H, x * h, w)
               /\ (w = 1920 /\ h = 1080 /\ overscan.mode = "PERCENTAGE" /\ p = 10)
                    => W = 2112 /\ H = 1188
               /\ (w = 1920 /\ h = 1080 /\ overscan.mode = "PIXELS" /\ e = 100)
                    => W = 2020 /\ H = 1180
               /\ (w = 1920 /\ h = 1080 /\ overscan.mode = "SPECIFIC_X" /\ x = 2560)
                    => W = 2560 /\ H = 1440
      ]_vars

\* a successful PERCENTAGE Apply on height 55 with p = 10: 60.5 became 61
C4_Witness ==
    /\ last.op = "apply"
    /\ last.outcome.current = "FINISHED"
    /\ overscan.mode = "PERCENTAGE"
    /\ overscan.percentage = 10
    /\ last.pre[1].resolution_y = 55
    /\ scene.current.resolution_y = 61

\* C5 -- safe-area margins by mode.  A successful Apply of the current
\* revision sets the title margin to (1,1) and the action margin to
\* p/(p+100) on both axes (PERCENTAGE), to (e/(e+w), e/(e+h)) (PIXELS, the
\* axes differing whenever w # h and e > 0), or to (x-w)/x on both axes
\* (SPECIFIC_X); on 1920x1080: 10/110 for p=10, (100/2020, 100/1180) for
\* e=100, 1/4 for x=2560.
C5_SafeAreaMargins ==
    [][ Done("apply", "current")
        => LET w == scene.current.resolution_x
               h == scene.current.resolution_y
               m == scene'.current.action
               p == overscan.percentage
               e == overscan.extra_pixels
               x == overscan.specific_x_resolution
               \* a/b = m[i] as exact rationals
               Is(q, a, b) == q[1] * b = a * q[2]
           IN  /\ scene'.current.title = << <<1, 1>>, <<1, 1>> >>
               /\ overscan.mode = "PERCENTAGE"
                    => Is(m[1], p, p + 100) /\ Is(m[2], p, p + 100)
               /\ overscan.mode = "PIXELS"
                    => /\ Is(m[1], e, e + w) /\ Is(m[2], e, e + h)
                       /\ (w # h /\ e > 0) => m[1] # m[2]
               /\ overscan.mode = "SPECIFIC_X"
                    => Is(m[1], x - w, x) /\ Is(m[2], x - w, x)
               /\ (w = 1920 /\ h = 1080 /\ overscan.mode = "PERCENTAGE" /\ p = 10)
                    => m = << <<1, 11>>, <<1, 11>> >>
               /\ (w = 1920 /\ h = 1080 /\ overscan.mode = "PIXELS" /\ e = 100)
                    => m = << <<5, 101>>, <<5, 59>> >>
               /\ (w = 1920 /\ h = 1080 /\ overscan.mode = "SPECIFIC_X" /\ x = 2560)
                    => m = << <<1, 4>>, <<1, 4>> >>
      ]_vars

C5_Witness ==
    /\ last.op = "apply"
    /\ last.outcome.current = "FINISHED"
    /\ overscan.mode = "PIXELS"
    /\ last.pre[1].resolution_x = 1920
    /\ last.pre[1].resolution_y = 1080
    /\ scene.current.action = << <<5, 101>>, <<5, 59>> >>
    /\ scene.current.title = << <<1, 1>>, <<1, 1>> >>

\* C6 as stated -- revert without a capture.  In the current revision a
\* Revert on a camera that carries no custom property finishes, sets the
\* render size and the camera parameter of its projection type to the
\* stored zero defaults, leaves the background scales alone, resets both
\* margins to (1,1) and sets the flag to false.
C6_RevertToStoredDefaults ==
    [][ ( Pressed("revert") /\ scene.current.cam[active].props = NoProps )
        => LET old == scene.current.cam[active]
               cam == scene'.current.cam[active]
           IN  /\ last'.outcome.current = "FINISHED"
               /\ scene'.current.resolution_x = 0
               /\ scene'.current.resolution_y = 0
               /\ (old.type = "ORTHO" => cam.ortho_scale = RZero)
               /\ (old.type = "PERSP" => cam.sensor_width = RZero)
               /\ cam.background_images = old.background_images
               /\ scene'.current.action = << ROne, ROne >>
               /\ scene'.current.title = << ROne, ROne >>
               /\ cam.props.overscan_applied = << FALSE >>
      ]_vars

\* C6 as amended -- the same, except that the current revision leaves
\* sensor_width and ortho_scale as they are (its fallback is the camera's
\* present value); only the legacy script puts the stored default 0 into
\* sensor_width, and it has no margins to reset.
C6_RevertWithoutCapture ==
    [][ ( Pressed("revert") /\ scene.current.cam[active].props = NoProps
                            /\ scene.legacy.cam[active].props = NoProps )
        => LET old  == scene.current.cam[active]
               cam  == scene'.current.cam[active]
               lold == scene.legacy.cam[active]
               lcam == scene'.legacy.cam[active]
           IN  /\ last'.outcome.current = "FINISHED"
               /\ scene'.current.resolution_x = 0
               /\ scene'.current.resolution_y = 0
               /\ cam.ortho_scale = old.ortho_scale
               /\ cam.sensor_width = old.sensor_width
               /\ cam.background_images = old.background_images
               /\ scene'.current.action = << ROne, ROne >>
               /\ scene'.current.title = << ROne, ROne >>
               /\ cam.props.overscan_applied = << FALSE >>
               /\ last'.outcome.legacy = "FINISHED"
               /\ scene'.legacy.resolution_x = 0
               /\ scene'.legacy.resolution_y = 0
               /\ lcam.sensor_width = RZero
               /\ lcam.ortho_scale = lold.ortho_scale
               /\ lcam.background_images = lold.background_images
               /\ lcam.props.overscan_applied = << FALSE >>
      ]_vars

C6_Witness ==
    /\ last.op = "revert"
    /\ last.prev[1] = "none"
    /\ last.outcome.current = "FINISHED"
    /\ scene.current.resolution_x = 0
    /\ scene.current.cam[last.cam].sensor_width = << 36, 1 >>
    /\ scene.current.cam[last.cam].props.overscan_applied = << FALSE >>
    /\ scene.current.cam[last.cam].props.original_width = << >>
    /\ scene.current.action = << ROne, ROne >>

\* C7 -- name suffix.  In both revisions the suffix step of a successful
\* Apply appends "_o" exactly when the name does not already end with "_o",
\* so that taking the step again adds nothing and no second "_o" is ever
\* appended; the suffix step of Revert drops the last two characters exactly
\* when the name ends with "_o", otherwise keeps the name, and finishes.
C7_NameSuffix ==
    [][ \A r \in Revs :
          LET old == scene[r].cam[active].name
              new == scene'[r].cam[active].name
              ends(n) == Len(n) >= 2 /\ SubSeq(n, Len(n) - 1, Len(n)) = << "_", "o" >>
          IN  /\ Done("apply", r)
                 => /\ ends(new)
                    /\ ends(old) => new = old
                    /\ ~ends(old) => new = old \o << "_", "o" >>
                    /\ AddSuffix(new) = new
                    /\ AddSuffix(AddSuffix(old)) = AddSuffix(old)
              /\ Pressed("revert")
                 => /\ last'.outcome[r] = "FINISHED"
                    /\ ends(old) => new = SubSeq(old, 1, Len(old) - 2)
                    /\ ~ends(old) => new = old
      ]_vars

\* Apply finished on a camera whose name already ended with "_o"
C7_Witness ==
    /\ last.op = "apply"
    /\ last.outcome.current = "FINISHED"
    /\ last.pre[1].cam[last.cam].name = << "b", "_", "o" >>
    /\ scene.current.cam[last.cam].name = << "b", "_", "o" >>

\* C8 -- camera and background scaling.  After a successful Apply of the
\* current revision from width w to width W, the camera parameter of the
\* camera's projection type is its old value times W/w, the other parameter
\* is untouched, every background image scale is its old value (stored
\* under the key of its position) times w/W, and parameter times scale is
\* the same as before for every image.
C8_CameraAndBackgroundScaling ==
    [][ Done("apply", "current")
        => LET w   == scene.current.resolution_x
               W   == scene'.current.resolution_x
               old == scene.current.cam[active]
               cam == scene'.current.cam[active]
               op  == IF old.type = "ORTHO" THEN old.ortho_scale ELSE old.sensor_width
               np  == IF old.type = "ORTHO" THEN cam.ortho_scale ELSE cam.sensor_width
               Eq(q, a, b) == q[1] * b = a * q[2]
           IN  /\ w >= 1
               /\ Eq(np, op[1] * W, op[2] * w)
               /\ old.type = "ORTHO" => cam.sensor_width = old.sensor_width
               /\ old.type = "PERSP" => cam.ortho_scale = old.ortho_scale
               /\ Len(cam.background_images) = Len(old.background_images)
               /\ \A i \in 1..Len(old.background_images) :
                    LET ob == old.background_images[i]
                        nb == cam.background_images[i]
                    IN  /\ cam.props.bg_image_scale[i] = ob
                        /\ Eq(nb, ob[1] * w, ob[2] * W)
                        /\ np[1] * nb[1] * op[2] * ob[2]
                             = op[1] * ob[1] * np[2] * nb[2]
      ]_vars

C8_Witness ==
    /\ last.op = "apply"
    /\ last.outcome.current = "FINISHED"
    /\ last.pre[1].cam[last.cam].type = "ORTHO"
    /\ last.pre[1].cam[last.cam].background_images = << <<1, 1>>, <<1, 2>> >>
    /\ last.pre[1].resolution_x = 1920
    /\ scene.current.resolution_x = 2112
    /\ scene.current.cam[last.cam].ortho_scale = << 33, 5 >>
    /\ scene.current.cam[last.cam].background_images = << <<10, 11>>, <<5, 11>> >>

\* what the two revisions are compared on
Observable(s) ==
    << s.resolution_x, s.resolution_y,
       [ c \in Cams |-> << s.cam[c].sensor_width, s.cam[c].ortho_scale,
                           s.cam[c].background_images, s.cam[c].name,
                           Get(s.cam[c].props.overscan_applied, FALSE) >> ] >>

\* everything but the safe-area margins and the safe-area visibility flag
Common(s) ==
    << s.resolution_x, s.resolution_y,
       [ c \in Cams |-> [s.cam[c] EXCEPT !.show_safe_areas = FALSE] ] >>

\* C9 as stated -- the same toggle.  Driven by the same actions from the
\* same initial state, the two revisions report the same outcome at every
\* step and agree on render size, sensor_width, ortho_scale, background
\* scales, camera names and flags.
C9_SameToggle ==
    /\ last.outcome.current = last.outcome.legacy
    /\ Observable(scene.current) = Observable(scene.legacy)

\* C9 as amended -- the two revisions stay in step on perspective cameras:
\* from scenes that agree on everything but the safe areas, with a render
\* size of at least 1x1, an Apply on a perspective camera, or a Revert on a
\* perspective camera that holds a captured original_sensor_width, reports
\* the same outcome in both and leaves the scenes in agreement.
C9_SameToggleOnPerspective ==
    [][ ( /\ Pressed("apply") \/ Pressed("revert")
          /\ Common(scene.current) = Common(scene.legacy)
          /\ scene.current.cam[active].type = "PERSP"
          /\ scene.current.resolution_x >= 1
          /\ scene.current.resolution_y >= 1
          /\ Pressed("revert")
               => scene.current.cam[active].props.original_sensor_width # <<>> )
        => /\ last'.outcome.current = last'.outcome.legacy
           /\ Common(scene'.current) = Common(scene'.legacy)
           /\ Observable(scene'.current) = Observable(scene'.legacy)
      ]_vars

\* a successful Apply and Revert on a perspective camera with a background
\* image, seen by both revisions alike
C9_Witness ==
    /\ last.op = "revert"
    /\ last.prev = << "apply", "FINISHED" >>
    /\ last.outcome.legacy = "FINISHED"
    /\ scene.current.cam[last.cam].type = "PERSP"
    /\ Len(scene.current.cam[last.cam].background_images) >= 1
    /\ overscan.mode = "PIXELS"
    /\ Common(scene.current) = Common(scene.legacy)
    /\ scene.legacy.cam[last.cam].props.original_sensor_width = << <<36, 1>> >>

\* C10 -- at most one overscan in effect on a scene.  With several cameras
\* and the user switching between them, an Apply of the current revision
\* succeeds only while no camera of the scene has its flag set, so the
\* resolution it captures as original is never an overscanned one.
C10_OneOverscanPerScene ==
    [][ Done("apply", "current")
        => \A c \in Cams : ~Flag(scene.current, c)
      ]_vars

====
